---- MODULE Spec2Model ----
(***************************************************************************)
(* China Data Hub ETL: the three spreadsheet-to-JSON pipelines             *)
(*   app.py       (ETLEngine: imports and exports by subheading),          *)
(*   appexport.py (ExportETL: exports only),                               *)
(*   appcuode.py  (ETLCuode: imports by end use, "importscuode").          *)
(*                                                                         *)
(* Text is modelled character by character: a Python str is a sequence of  *)
(* one-character atoms.  The atoms "'a" "'e" "'i" "'o" "'u" "'A" ... stand  *)
(* for the precomposed accented letters, "~n"/"~N" for n-tilde, and        *)
(* "{acute}"/"{tilde}" for the combining marks (category Mn) that NFD      *)
(* splits off them.  A spreadsheet cell is what str() renders of it, or    *)
(* NaN for an empty cell.                                                  *)
(***************************************************************************)
EXTENDS Integers, Sequences, FiniteSets, TLC

VARIABLES disk, prev, last, runs, arg, ret, ret2, pc

vars == <<disk, prev, last, runs, arg, ret, ret2, pc>>

(***************************************************************************)
(* Values outside the strings: Python's None and pandas' NaN.              *)
(***************************************************************************)
NoneVal == <<"<None>">>
NaN == <<"<NaN>">>

Apps == {"app", "appexport", "appcuode"}

(***************************************************************************)
(* Characters.                                                             *)
(***************************************************************************)
Digits == <<"0", "1", "2", "3", "4", "5", "6", "7", "8", "9">>

IsDigit(c) == \E i \in 1..Len(Digits) : Digits[i] = c

DigitVal(c) == (CHOOSE i \in 1..Len(Digits) : Digits[i] = c) - 1

IsSpace(c) == c \in {" ", "\t"}

UpperLetters == <<"A", "B", "C", "D", "E", "F", "G", "H", "I", "J", "K", "L", "M",
                  "N", "O", "P", "Q", "R", "S", "T", "U", "V", "W", "X", "Y", "Z",
                  "'A", "'E", "'I", "'O", "'U", "~N">>

LowerLetters == <<"a", "b", "c", "d", "e", "f", "g", "h", "i", "j", "k", "l", "m",
                  "n", "o", "p", "q", "r", "s", "t", "u", "v", "w", "x", "y", "z",
                  "'a", "'e", "'i", "'o", "'u", "~n">>

IsUpper(c) == \E i \in 1..Len(UpperLetters) : UpperLetters[i] = c

IsLower(c) == \E i \in 1..Len(LowerLetters) : LowerLetters[i] = c

\* str.lower() of one character
LowerChar(c) ==
    IF IsUpper(c)
    THEN LowerLetters[CHOOSE i \in 1..Len(UpperLetters) : UpperLetters[i] = c]
    ELSE c

\* str.upper() of one character
UpperChar(c) ==
    IF IsLower(c)
    THEN UpperLetters[CHOOSE i \in 1..Len(LowerLetters) : LowerLetters[i] = c]
    ELSE c

IsWordChar(c) == IsDigit(c) \/ IsUpper(c) \/ IsLower(c) \/ c = "_"

\* unicodedata.category(c) = "Mn"
IsMark(c) == c \in {"{acute}", "{tilde}"}

\* unicodedata.normalize("NFD", c) of one character
DecomposeChar(c) ==
    CASE c = "'a" -> <<"a", "{acute}">>
      [] c = "'e" -> <<"e", "{acute}">>
      [] c = "'i" -> <<"i", "{acute}">>
      [] c = "'o" -> <<"o", "{acute}">>
      [] c = "'u" -> <<"u", "{acute}">>
      [] c = "'A" -> <<"A", "{acute}">>
      [] c = "'E" -> <<"E", "{acute}">>
      [] c = "'I" -> <<"I", "{acute}">>
      [] c = "'O" -> <<"O", "{acute}">>
      [] c = "'U" -> <<"U", "{acute}">>
      [] c = "~n" -> <<"n", "{tilde}">>
      [] c = "~N" -> <<"N", "{tilde}">>
      [] OTHER -> <<c>>

(***************************************************************************)
(* Strings.                                                                *)
(***************************************************************************)
\* str(x): an empty cell renders as "nan", None as "None"
Str(x) ==
    IF x = NaN THEN <<"n", "a", "n">>
    ELSE IF x = NoneVal THEN <<"N", "o", "n", "e">>
    ELSE x

RECURSIVE LStrip(_)
LStrip(s) == IF s # <<>> /\ IsSpace(Head(s)) THEN LStrip(Tail(s)) ELSE s

RECURSIVE RStrip(_)
RStrip(s) ==
    IF s # <<>> /\ IsSpace(s[Len(s)]) THEN RStrip(SubSeq(s, 1, Len(s) - 1)) ELSE s

\* str.strip()
Strip(s) == RStrip(LStrip(s))

\* str.lower()
RECURSIVE LowerStr(_)
LowerStr(s) == IF s = <<>> THEN <<>> ELSE <<LowerChar(Head(s))>> \o LowerStr(Tail(s))

\* str.upper()
RECURSIVE UpperStr(_)
UpperStr(s) == IF s = <<>> THEN <<>> ELSE <<UpperChar(Head(s))>> \o UpperStr(Tail(s))

\* ''.join(c for c in unicodedata.normalize("NFD", txt) if category(c) != "Mn")
RECURSIVE StripMarks(_)
StripMarks(s) ==
    IF s = <<>> THEN <<>>
    ELSE SelectSeq(DecomposeChar(Head(s)), LAMBDA c : ~IsMark(c)) \o StripMarks(Tail(s))

\* re.sub(r"\s+", " ", txt)
RECURSIVE CollapseSpaces(_)
CollapseSpaces(s) ==
    IF s = <<>> THEN <<>>
    ELSE IF IsSpace(Head(s))
         THEN <<" ">> \o CollapseSpaces(LStrip(s))
         ELSE <<Head(s)>> \o CollapseSpaces(Tail(s))

\* s.startswith(p)
StartsWith(s, p) == Len(s) >= Len(p) /\ SubSeq(s, 1, Len(p)) = p

\* s.endswith(p)
EndsWith(s, p) == Len(s) >= Len(p) /\ SubSeq(s, Len(s) - Len(p) + 1, Len(s)) = p

\* p in s, for strings
Contains(s, p) ==
    \E i \in 1..(Len(s) - Len(p) + 1) : SubSeq(s, i, i + Len(p) - 1) = p

\* x in row, for a list
InList(row, x) == \E i \in 1..Len(row) : row[i] = x

\* s[i:], with i counted from 1
From(s, i) == SubSeq(s, i, Len(s))

(***************************************************************************)
(* norm: the diacritic- and case-insensitive key used to match headers.    *)
(***************************************************************************)
norm(txt) ==
    LET s0 == IF txt = NoneVal THEN <<>> ELSE Str(txt)
        s1 == LowerStr(Strip(s0))
        s2 == StripMarks(s1)
    IN  CollapseSpaces(s2)

\* the two anchor labels of find_header_row
AnchorPeriodo == <<"p", "e", "r", "i", "o", "d", "o">>
AnchorCodigo == <<"c", "o", "d", "i", "g", "o", " ",
                  "s", "u", "b", "p", "a", "r", "t", "i", "d", "a">>

\* max_rows of find_header_row, per program
max_rows_app == 40
max_rows_appexport == 40
max_rows_appcuode == 80

MaxRowsOf(app) ==
    CASE app = "app" -> max_rows_app
      [] app = "appexport" -> max_rows_appexport
      [] app = "appcuode" -> max_rows_appcuode

\* the row test of find_header_row
IsHeaderRow(row) ==
    LET nrow == [i \in 1..Len(row) |-> norm(row[i])]
    IN  InList(nrow, AnchorCodigo) /\ InList(nrow, AnchorPeriodo)

\* a preview that reads the whole sheet, whatever max_rows says
PreviewWhole(sheet, max_rows) == Len(sheet)

\* rows the preview holds: pd.read_excel(..., header=None, nrows=max_rows)
PreviewLen(sheet, max_rows) == IF Len(sheet) < max_rows THEN Len(sheet) ELSE max_rows

\* the None that find_header_row returns in place of a row index
NoIndex == -1

\* find_header_row: the 0-based index of the first row of the preview that
\* holds both anchors, or None
find_header_row(sheet, max_rows) ==
    LET n == PreviewLen(sheet, max_rows)
        hits == {i \in 1..n : IsHeaderRow(sheet[i])}
    IN  IF hits = {} THEN NoIndex
        ELSE (CHOOSE i \in hits : \A j \in hits : i <= j) - 1

(***************************************************************************)
(* Period parsing.                                                         *)
(***************************************************************************)
\* the index after the whitespace run that starts at s[i]
RECURSIVE SkipSpaces(_, _)
SkipSpaces(s, i) == IF i <= Len(s) /\ IsSpace(s[i]) THEN SkipSpaces(s, i + 1) ELSE i

\* \d{n} matches at s[i]
DigitsAt(s, i, n) == i + n - 1 <= Len(s) /\ \A k \in i..(i + n - 1) : IsDigit(s[k])

\* (\d{4})\s*/\s*(\d{lo,hi}) matched at s[i]: the digits of group 2 (the
\* quantifier is greedy), or <<>> when there is no match at i
YearMonthAt(s, i, lo, hi) ==
    IF ~DigitsAt(s, i, 4) THEN <<>>
    ELSE LET j == SkipSpaces(s, i + 4)
         IN  IF ~(j <= Len(s) /\ s[j] = "/") THEN <<>>
             ELSE LET k == SkipSpaces(s, j + 1)
                      ns == {n \in lo..hi : DigitsAt(s, k, n)}
                  IN  IF ns = {} THEN <<>>
                      ELSE LET n == CHOOSE x \in ns : \A y \in ns : y <= x
                           IN  SubSeq(s, k, k + n - 1)

\* re.search: the leftmost position with a match, 0 when there is none
YearMonthPos(s, lo, hi) ==
    LET ps == {i \in 1..Len(s) : YearMonthAt(s, i, lo, hi) # <<>>}
    IN  IF ps = {} THEN 0 ELSE CHOOSE i \in ps : \A j \in ps : i <= j

\* re.search(r"(\d{4})", s): the leftmost position, 0 when there is none
YearPos(s) ==
    LET ps == {i \in 1..Len(s) : DigitsAt(s, i, 4)}
    IN  IF ps = {} THEN 0 ELSE CHOOSE i \in ps : \A j \in ps : i <= j

DateSuffix == <<"-", "0", "1">>

\* parse_fecha of app.py and appexport.py (the same text in both)
parse_fecha(txt) ==
    LET s == Str(txt)
        p == YearMonthPos(s, 2, 2)
    IN  IF p = 0 THEN NoneVal
        ELSE SubSeq(s, p, p + 3) \o <<"-">> \o YearMonthAt(s, p, 2, 2) \o DateSuffix

\* int(m.group(2)) formatted {mm:02d}
TwoDigits(ds) == IF Len(ds) = 1 THEN <<"0">> \o ds ELSE ds

\* parse_fecha_any of appcuode.py
parse_fecha_any(x) ==
    LET s == Strip(Str(x))
        p == YearMonthPos(s, 1, 2)
        q == YearPos(s)
    IN  IF p # 0
        THEN SubSeq(s, p, p + 3) \o <<"-">> \o TwoDigits(YearMonthAt(s, p, 1, 2))
                 \o DateSuffix
        ELSE IF q # 0
             THEN SubSeq(s, q, q + 3) \o <<"-", "0", "1">> \o DateSuffix
             ELSE NoneVal

\* the period parser each program applies to the period column
ParsePeriod(app, txt) ==
    IF app = "appcuode" THEN parse_fecha_any(txt) ELSE parse_fecha(txt)

(***************************************************************************)
(* Code normalisation.                                                     *)
(***************************************************************************)
\* str.replace(old, "") for a non-empty old: leftmost, non-overlapping
RECURSIVE Remove(_, _)
Remove(s, old) ==
    IF Len(s) < Len(old) THEN s
    ELSE IF StartsWith(s, old) THEN Remove(From(s, Len(old) + 1), old)
         ELSE <<Head(s)>> \o Remove(Tail(s), old)

\* the width both programs pad codes to
CodeWidth == 10

Zeros(n) == [i \in 1..n |-> "0"]

\* str.zfill(width): the zeros go after a leading sign
zfill(s, width) ==
    IF Len(s) >= width THEN s
    ELSE IF s # <<>> /\ Head(s) \in {"+", "-"}
         THEN <<Head(s)>> \o Zeros(width - Len(s)) \o Tail(s)
         ELSE Zeros(width - Len(s)) \o s

\* str.isdigit()
isdigit(s) == s # <<>> /\ \A i \in 1..Len(s) : IsDigit(s[i])

\* app.py and appexport.py:
\*   .astype(str).str.replace(".", "").str.strip().str.zfill(10)
normalize_cod_app(x) == zfill(Strip(Remove(Str(x), <<".">>)), CodeWidth)

\* a normaliser that trims before it removes the dots
normalize_cod_trim_first(x) ==
    IF isdigit(Remove(Remove(Strip(Str(x)), <<".", "0">>), <<".">>))
       /\ Len(Remove(Remove(Strip(Str(x)), <<".", "0">>), <<".">>)) < CodeWidth
    THEN zfill(Remove(Remove(Strip(Str(x)), <<".", "0">>), <<".">>), CodeWidth)
    ELSE Remove(Remove(Strip(Str(x)), <<".", "0">>), <<".">>)

\* appcuode.py: replace(".0", ""), replace(".", ""), strip, then
\*   x.zfill(10) if x.isdigit() and len(x) < 10 else x
normalize_cod_cuode(x) ==
    LET c == Strip(Remove(Remove(Str(x), <<".", "0">>), <<".">>))
    IN  IF isdigit(c) /\ Len(c) < CodeWidth THEN zfill(c, CodeWidth) ELSE c

\* the code normalisation each program applies to the code column
NormalizeCode(app, x) ==
    IF app = "appcuode" THEN normalize_cod_cuode(x) ELSE normalize_cod_app(x)

(***************************************************************************)
(* Ordering of strings (sorted() compares code points).                    *)
(***************************************************************************)
\* the characters of the model in ascending code point order
CharOrder == <<"\t", " ", "$", "(", ")", "+", "-", ".", "/",
               "0", "1", "2", "3", "4", "5", "6", "7", "8", "9", ":",
               "A", "B", "C", "D", "E", "F", "G", "H", "I", "J", "K", "L", "M",
               "N", "O", "P", "Q", "R", "S", "T", "U", "V", "W", "X", "Y", "Z", "_",
               "a", "b", "c", "d", "e", "f", "g", "h", "i", "j", "k", "l", "m",
               "n", "o", "p", "q", "r", "s", "t", "u", "v", "w", "x", "y", "z", "~",
               "'A", "'E", "'I", "~N", "'O", "'U", "'a", "'e", "'i", "~n", "'o", "'u",
               "{acute}", "{tilde}">>

Ord(c) == CHOOSE i \in 1..Len(CharOrder) : CharOrder[i] = c

\* a <= b for Python strings
RECURSIVE StrLeq(_, _)
StrLeq(a, b) ==
    IF a = <<>> THEN TRUE
    ELSE IF b = <<>> THEN FALSE
    ELSE IF Head(a) = Head(b) THEN StrLeq(Tail(a), Tail(b))
    ELSE Ord(Head(a)) < Ord(Head(b))

\* sorted(S) of a set of distinct strings
RECURSIVE SortStrings(_)
SortStrings(S) ==
    IF S = {} THEN <<>>
    ELSE LET m == CHOOSE x \in S : \A y \in S : StrLeq(x, y)
         IN  <<m>> \o SortStrings(S \ {m})

\* list(reversed(s))
Reverse(s) == [i \in 1..Len(s) |-> s[Len(s) + 1 - i]]

(***************************************************************************)
(* Numbers.  Measures are whole numbers in the model: a cell holds the     *)
(* decimal digits of one (with an optional minus sign) or text that is no  *)
(* number.                                                                 *)
(***************************************************************************)
RECURSIVE NatOf(_)
NatOf(ds) ==
    IF ds = <<>> THEN 0
    ELSE NatOf(SubSeq(ds, 1, Len(ds) - 1)) * 10 + DigitVal(ds[Len(ds)])

\* pd.to_numeric(cell, errors="coerce") followed by fillna(0)
to_numeric(x) ==
    IF x = NaN THEN 0
    ELSE IF isdigit(x) THEN NatOf(x)
    ELSE IF Len(x) > 1 /\ Head(x) = "-" /\ isdigit(Tail(x)) THEN 0 - NatOf(Tail(x))
    ELSE 0

\* str(n) of a natural number
RECURSIVE NatStr(_)
NatStr(n) == IF n < 10 THEN <<Digits[n + 1]>> ELSE NatStr(n \div 10) \o <<Digits[(n % 10) + 1]>>

(***************************************************************************)
(* Descriptions.                                                           *)
(***************************************************************************)
Desconocido == <<"D", "e", "s", "c", "o", "n", "o", "c", "i", "d", "o">>

\* re.sub(r"^PREFIX\s*", "", txt)
DropPrefix(s, p) == IF StartsWith(s, p) THEN LStrip(From(s, Len(p) + 1)) ELSE s

\* re.sub(r"\(.*?\)", "", txt)
RECURSIVE RemoveParens(_)
RemoveParens(s) ==
    IF s = <<>> THEN <<>>
    ELSE IF Head(s) = "(" /\ (\E j \in 2..Len(s) : s[j] = ")")
         THEN LET j == CHOOSE k \in 2..Len(s) :
                           s[k] = ")" /\ \A m \in 2..(k - 1) : s[m] # ")"
              IN  RemoveParens(From(s, j + 1))
         ELSE <<Head(s)>> \o RemoveParens(Tail(s))

\* str.capitalize()
Capitalize(s) ==
    IF s = <<>> THEN <<>> ELSE <<UpperChar(Head(s))>> \o LowerStr(Tail(s))

\* the boilerplate prefixes ETLEngine.clean_text and ExportETL.clean_text drop
PrefixLosDemas == <<"L", "O", "S", " ", "D", "E", "M", "'A", "S">>
PrefixLasDemas == <<"L", "A", "S", " ", "D", "E", "M", "'A", "S">>
PrefixOtros == <<"O", "T", "R", "O", "S">>
PrefixOtras == <<"O", "T", "R", "A", "S">>

\* ETLEngine.clean_text and ExportETL.clean_text (the same text in both)
clean_text_app(text) ==
    IF text = NaN THEN Desconocido
    ELSE LET t0 == UpperStr(Strip(text))
             t1 == DropPrefix(t0, PrefixLosDemas)
             t2 == DropPrefix(t1, PrefixLasDemas)
             t3 == DropPrefix(t2, PrefixOtros)
             t4 == DropPrefix(t3, PrefixOtras)
             t5 == Strip(RemoveParens(t4))
         IN  IF t5 # <<>> THEN Capitalize(t5) ELSE Desconocido

\* ETLCuode.clean_text
clean_text_cuode(text) ==
    IF text = NaN THEN Desconocido
    ELSE LET t0 == Strip(RemoveParens(Strip(text)))
             t1 == Strip(CollapseSpaces(t0))
         IN  IF t1 # <<>> THEN t1 ELSE Desconocido

(***************************************************************************)
(* Sectors.  The labels are written without their leading emoji.           *)
(***************************************************************************)
sectors ==
    { <<<<"0", "3">>, "Pesca">>, <<<<"0", "7">>, "Hortalizas">>,
      <<<<"0", "8">>, "Frutas">>, <<<<"1", "6">>, "Conservas">>,
      <<<<"1", "8">>, "Cacao">>, <<<<"2", "9">>, "Quimicos">>,
      <<<<"3", "0">>, "Farma">>, <<<<"3", "9">>, "Plasticos">>,
      <<<<"4", "4">>, "Madera">>, <<<<"7", "2">>, "Hierro/Acero">>,
      <<<<"8", "4">>, "Maquinaria">>, <<<<"8", "5">>, "Electrico">>,
      <<<<"8", "7">>, "Vehiculos">> }

\* a get_sector that looks the whole code up, not its first two characters
get_sector_whole(code) ==
    IF \E e \in sectors : e[1] = Str(code)
    THEN (CHOOSE e \in sectors : e[1] = Str(code))[2]
    ELSE "Otros"

\* get_sector: sectors.get(str(code)[:2], "Otros")
get_sector(code) ==
    LET c == Str(code)
        cap == SubSeq(c, 1, IF Len(c) < 2 THEN Len(c) ELSE 2)
    IN  IF \E e \in sectors : e[1] = cap
        THEN (CHOOSE e \in sectors : e[1] = cap)[2]
        ELSE "Otros"

(***************************************************************************)
(* One spreadsheet.  A file is [name, sheet]: the sheet (the first one) is *)
(* a sequence of rows, each row a sequence of cells of the same width.     *)
(***************************************************************************)
Unnamed == <<"U", "n", "n", "a", "m", "e", "d">>

\* the label pandas gives column k (0-based) of the header row, after
\* df.columns.astype(str).str.strip()
ColumnLabel(cell, k) ==
    IF cell = NaN THEN Unnamed \o <<":", " ">> \o NatStr(k) ELSE Strip(Str(cell))

\* df.columns after read_excel(header=idx); 0-based idx
Columns(sheet, idx) ==
    [k \in 1..Len(sheet[idx + 1]) |-> ColumnLabel(sheet[idx + 1][k], k - 1)]

\* df.loc[:, ~df.columns.str.contains("^Unnamed")]: the columns kept
Kept(labels) == {k \in 1..Len(labels) : ~StartsWith(labels[k], Unnamed)}

\* norm_cols keyed by the labels as they are, not normalised
NormColRaw(labels, key) ==
    LET ks == {k \in Kept(labels) : labels[k] = key}
    IN  IF ks = {} THEN 0 ELSE CHOOSE k \in ks : \A j \in ks : j <= k

\* norm_cols = {norm(c): c for c in df.columns}: the column a key maps to
\* (a later column with the same key replaces an earlier one), 0 for none
NormCol(labels, key) ==
    LET ks == {k \in Kept(labels) : norm(labels[k]) = key}
    IN  IF ks = {} THEN 0 ELSE CHOOSE k \in ks : \A j \in ks : j <= k

\* pick(*opts): the column of the first option that is a key of norm_cols
RECURSIVE pick(_, _)
pick(labels, opts) ==
    IF opts = <<>> THEN 0
    ELSE IF NormCol(labels, Head(opts)) # 0 THEN NormCol(labels, Head(opts))
    ELSE pick(labels, Tail(opts))

\* the accepted spellings, app.py and appexport.py
OptsPeriodo == <<<<"p", "e", "r", "i", "o", "d", "o">>,
       <<"p", "e", "r", "'i", "o", "d", "o">>>>
OptsCod == <<<<"c", "o", "d", "i", "g", "o", " ", "s", "u", "b", "p", "a", "r", "t", "i", "d", "a">>,
       <<"c", "'o", "d", "i", "g", "o", " ", "s", "u", "b", "p", "a", "r", "t", "i", "d", "a">>>>
OptsDesc == <<<<"s", "u", "b", "p", "a", "r", "t", "i", "d", "a">>,
       <<"d", "e", "s", "c", "r", "i", "p", "c", "i", "o", "n">>,
       <<"d", "e", "s", "c", "r", "i", "p", "c", "i", "'o", "n">>>>
OptsPeso == <<<<"t", "m", " ", "(", "p", "e", "s", "o", " ", "n", "e", "t", "o", ")">>,
       <<"p", "e", "s", "o", " ", "n", "e", "t", "o">>>>
OptsFob == <<<<"f", "o", "b">>>>
OptsCif == <<<<"c", "i", "f">>>>

\* the accepted spellings, appcuode.py
CuodePeriodo == <<<<"p", "e", "r", "i", "o", "d", "o">>,
       <<"p", "e", "r", "i", "o", "d", "o", ":">>>>
CuodeGrupoCod == <<<<"c", "o", "d", "i", "g", "o", " ", "g", "r", "u", "p", "o">>,
       <<"c", "o", "d", " ", "g", "r", "u", "p", "o">>,
       <<"c", "o", "d", "i", "g", "o", " ", "d", "e", " ", "g", "r", "u", "p", "o">>>>
CuodeGrupo == <<<<"g", "r", "u", "p", "o">>>>
CuodeSubgrupoCod == <<<<"c", "o", "d", "i", "g", "o", " ", "s", "u", "b", "g", "r", "u", "p", "o">>,
       <<"c", "o", "d", " ", "s", "u", "b", "g", "r", "u", "p", "o">>,
       <<"c", "o", "d", "i", "g", "o", " ", "d", "e", " ", "s", "u", "b", "g", "r", "u", "p", "o">>>>
CuodeSubgrupo == <<<<"s", "u", "b", "g", "r", "u", "p", "o">>>>
CuodeCod == <<<<"c", "o", "d", "i", "g", "o", " ", "s", "u", "b", "p", "a", "r", "t", "i", "d", "a">>,
       <<"c", "o", "d", "i", "g", "o", " ", "s", "u", "b", "p", "a", "r", "t", "i", "d", "a", ":">>>>
CuodeDesc == <<<<"s", "u", "b", "p", "a", "r", "t", "i", "d", "a">>,
       <<"d", "e", "s", "c", "r", "i", "p", "c", "i", "o", "n">>,
       <<"d", "e", "s", "c", "r", "i", "p", "c", "i", "o", "n", ":">>>>
CuodePeso == <<<<"t", "m", " ", "(", "p", "e", "s", "o", " ", "n", "e", "t", "o", ")">>,
       <<"p", "e", "s", "o", " ", "n", "e", "t", "o">>,
       <<"t", "m", " ", "p", "e", "s", "o", " ", "n", "e", "t", "o">>,
       <<"t", "m">>>>

\* the column (0: none) each canonical field is renamed from
FieldCols(app, labels) ==
    IF app = "appcuode"
    THEN [fecha_txt |-> pick(labels, CuodePeriodo), cod |-> pick(labels, CuodeCod),
          desc |-> pick(labels, CuodeDesc), peso |-> pick(labels, CuodePeso),
          fob |-> pick(labels, OptsFob), cif |-> pick(labels, OptsCif),
          grupo_cod |-> pick(labels, CuodeGrupoCod), grupo |-> pick(labels, CuodeGrupo),
          subgrupo_cod |-> pick(labels, CuodeSubgrupoCod),
          subgrupo |-> pick(labels, CuodeSubgrupo)]
    ELSE [fecha_txt |-> pick(labels, OptsPeriodo), cod |-> pick(labels, OptsCod),
          desc |-> pick(labels, OptsDesc), peso |-> pick(labels, OptsPeso),
          fob |-> pick(labels, OptsFob), cif |-> pick(labels, OptsCif),
          grupo_cod |-> 0, grupo |-> 0, subgrupo_cod |-> 0, subgrupo |-> 0]

\* "export" in filename.lower()
ExportToken == <<"e", "x", "p", "o", "r", "t">>

\* tipo = "exports" if "export" in filename.lower() else "imports"
Tipo(name) == IF Contains(LowerStr(name), ExportToken) THEN "exports" ELSE "imports"

\* the flow (output directory) a program writes a file to
FlowOf(app, name) ==
    CASE app = "app" -> Tipo(name)
      [] app = "appexport" -> "exports"
      [] app = "appcuode" -> "importscuode"

\* the data rows under the header that survive dropna(subset=["fecha", "cod"])
DataRows(app, sheet, idx, fc) ==
    SelectSeq(SubSeq(sheet, idx + 2, Len(sheet)),
              LAMBDA r : ParsePeriod(app, r[fc.fecha_txt]) # NoneVal /\ r[fc.cod] # NaN)

\* a numeric column of the output: to_numeric when the file has it, else the
\* default appexport.py and appcuode.py fill in
Measure(r, k) == IF k = 0 THEN 0 ELSE to_numeric(r[k])

\* one record of <year>.json, app.py and appexport.py
RecordApp(app, r, fc) ==
    [fecha |-> ParsePeriod(app, r[fc.fecha_txt]),
     cod |-> NormalizeCode(app, r[fc.cod]),
     label |-> IF fc.desc = 0 THEN Desconocido ELSE clean_text_app(r[fc.desc]),
     sector |-> get_sector(NormalizeCode(app, r[fc.cod])),
     fob |-> Measure(r, fc.fob), cif |-> Measure(r, fc.cif), peso |-> Measure(r, fc.peso)]

\* one record of <year>.json, appcuode.py
RecordCuode(r, fc) ==
    [fecha |-> parse_fecha_any(r[fc.fecha_txt]),
     cod |-> normalize_cod_cuode(r[fc.cod]),
     label |-> IF fc.desc = 0 THEN Desconocido ELSE clean_text_cuode(r[fc.desc]),
     grupo_cod |-> IF fc.grupo_cod = 0 THEN <<>> ELSE Strip(Str(r[fc.grupo_cod])),
     grupo |-> IF fc.grupo = 0 THEN <<>> ELSE r[fc.grupo],
     subgrupo_cod |-> IF fc.subgrupo_cod = 0 THEN <<>> ELSE Strip(Str(r[fc.subgrupo_cod])),
     subgrupo |-> IF fc.subgrupo = 0 THEN <<>> ELSE r[fc.subgrupo],
     fob |-> Measure(r, fc.fob), cif |-> Measure(r, fc.cif), peso |-> Measure(r, fc.peso)]

RECURSIVE RecordsOf(_, _, _)
RecordsOf(app, rows, fc) ==
    IF rows = <<>> THEN <<>>
    ELSE <<IF app = "appcuode" THEN RecordCuode(Head(rows), fc)
           ELSE RecordApp(app, Head(rows), fc)>> \o RecordsOf(app, Tail(rows), fc)

Records(app, sheet, idx, fc) == RecordsOf(app, DataRows(app, sheet, idx, fc), fc)

\* df["fecha"].str[:4]
YearOf(rec) == SubSeq(rec.fecha, 1, 4)

\* years = sorted(df["fecha"].str[:4].unique())
Years(recs) == SortStrings({YearOf(recs[i]) : i \in 1..Len(recs)})

\* sub = df[df["fecha"].str.startswith(yr)]
YearRecords(recs, yr) == SelectSeq(recs, LAMBDA rec : StartsWith(rec.fecha, yr))

\* the files written for the years, in order: <<year, records>>
RECURSIVE YearWrites(_, _)
YearWrites(recs, yrs) ==
    IF yrs = <<>> THEN <<>>
    ELSE <<<<Head(yrs), YearRecords(recs, Head(yrs))>>>> \o YearWrites(recs, Tail(yrs))

\* the KeyError app.py raises on a column it never defaults: df["desc"] at the
\* label step whatever the rows, sub[cols] at the first year written
RaisesKeyError(app, fc, recs) ==
    /\ app = "app"
    /\ \/ fc.desc = 0
       \/ recs # <<>> /\ (fc.fob = 0 \/ fc.cif = 0 \/ fc.peso = 0)

\* What one pass of the loop body does with a file:
\*   outcome  "no_header" | "missing_cols" | "error" | "ok"
\*   mkdir    whether app.py reached os.makedirs(out_dir)
\*   writes   the <year>.json files written, in order: <<year, records>>
NoHeader == [outcome |-> "no_header", mkdir |-> FALSE, writes |-> <<>>]

\* the end of the loop body: the derived columns, the years and the year files
AfterRecords(app, fc, recs) ==
    IF RaisesKeyError(app, fc, recs)
    THEN [outcome |-> "error", mkdir |-> fc.desc # 0, writes |-> <<>>]
    ELSE [outcome |-> "ok", mkdir |-> app = "app", writes |-> YearWrites(recs, Years(recs))]

\* the loop body once the columns are picked: the mandatory columns are
\* checked, then the rows are cleaned
AfterPick(app, file, idx, fc) ==
    IF fc.cod = 0 \/ fc.fecha_txt = 0
    THEN [NoHeader EXCEPT !.outcome = "missing_cols"]
    ELSE AfterRecords(app, fc, Records(app, file.sheet, idx, fc))

\* the loop body once find_header_row has answered
AfterHeader(app, file, idx) ==
    IF idx = NoIndex THEN NoHeader
    ELSE AfterPick(app, file, idx, FieldCols(app, Columns(file.sheet, idx)))

ProcessFile(app, file) ==
    AfterHeader(app, file, find_header_row(file.sheet, MaxRowsOf(app)))

(***************************************************************************)
(* The source folder.                                                      *)
(***************************************************************************)
\* 2020-export-china-subpartidas.xlsx: a well-formed export file: header at row 0, two years
FileExport2020 ==
    [name |-> <<"2", "0", "2", "0", "-", "e", "x", "p", "o", "r", "t", "-", "c", "h", "i", "n", "a", "-", "s", "u", "b", "p", "a", "r", "t", "i", "d", "a", "s", ".", "x", "l", "s", "x">>,
     sheet |->
     <<<<<<"P", "e", "r", "'i", "o", "d", "o">>,
         <<"P", "a", "'i", "s", " ", "O", "r", "i", "g", "e", "n">>,
         <<"C", "'o", "d", "i", "g", "o", " ", "S", "u", "b", "p", "a", "r", "t", "i", "d", "a">>,
         <<"S", "u", "b", "p", "a", "r", "t", "i", "d", "a">>,
         <<"T", "M", " ", "(", "P", "e", "s", "o", " ", "N", "e", "t", "o", ")">>,
         <<"F", "O", "B">>,
         <<"C", "I", "F">>>>,
       <<<<"2", "0", "2", "0", " ", "/", " ", "0", "1", " ", "-", " ", "E", "n", "e", "r", "o">>,
         <<"C", "h", "i", "n", "a">>,
         <<"0", "8", "0", "3", ".", "9", "0", ".", "1", "1", ".", "0", "0">>,
         <<"B", "A", "N", "A", "N", "A", "S", " ", "(", "F", "R", "E", "S", "C", "A", "S", ")">>,
         <<"1", "0">>,
         <<"5", "0", "0">>,
         <<"0">>>>,
       <<<<"2", "0", "2", "0", " ", "/", " ", "0", "2", " ", "-", " ", "F", "e", "b", "r", "e", "r", "o">>,
         <<"C", "h", "i", "n", "a">>,
         <<"1", "8", "0", "1", ".", "0", "0", ".", "1", "9", ".", "0", "0">>,
         <<"L", "O", "S", " ", "D", "E", "M", "'A", "S", " ", "C", "A", "C", "A", "O", " ", "E", "N", " ", "G", "R", "A", "N", "O">>,
         <<"3">>,
         <<"7", "0", "0">>,
         <<"n", "/", "d">>>>,
       <<<<"2", "0", "2", "1", " ", "/", " ", "0", "1", " ", "-", " ", "E", "n", "e", "r", "o">>,
         <<"C", "h", "i", "n", "a">>,
         <<"0", "3", "0", "6", ".", "1", "7", ".", "1", "1", ".", "0", "0">>,
         <<"L", "A", "N", "G", "O", "S", "T", "I", "N", "O", "S">>,
         <<"4">>,
         <<"9", "0", "0">>,
         NaN>>>>]

\* 2021-bad.xlsx: a malformed file: no row holds the code anchor
FileBad2021 ==
    [name |-> <<"2", "0", "2", "1", "-", "b", "a", "d", ".", "x", "l", "s", "x">>,
     sheet |->
     <<<<<<"R", "e", "p", "o", "r", "t", "e">>,
         NaN,
         NaN,
         NaN>>,
       <<<<"P", "e", "r", "'i", "o", "d", "o">>,
         <<"S", "u", "b", "p", "a", "r", "t", "i", "d", "a">>,
         <<"F", "O", "B">>,
         <<"C", "I", "F">>>>,
       <<<<"2", "0", "2", "1", " ", "/", " ", "0", "5", " ", "-", " ", "M", "a", "y", "o">>,
         <<"A", "T", "U", "N", "E", "S">>,
         <<"4", "0">>,
         <<"5", "0">>>>>>]

\* 2021-export-min.xlsx: mandatory columns and FOB only, unaccented upper/lower case labels
FileExportMin2021 ==
    [name |-> <<"2", "0", "2", "1", "-", "e", "x", "p", "o", "r", "t", "-", "m", "i", "n", ".", "x", "l", "s", "x">>,
     sheet |->
     <<<<<<"P", "E", "R", "I", "O", "D", "O">>,
         <<"c", "o", "d", "i", "g", "o", " ", " ", "s", "u", "b", "p", "a", "r", "t", "i", "d", "a">>,
         <<"F", "O", "B">>>>,
       <<<<"2", "0", "2", "1", "/", "0", "3">>,
         <<"8", "7", "0", "3", ".", "2", "3">>,
         <<"2", "5", "0">>>>>>]

\* 2021-import-china.xlsx: every column of every flow, header at row 2, a totals row and two years
FileImportChina2021 ==
    [name |-> <<"2", "0", "2", "1", "-", "i", "m", "p", "o", "r", "t", "-", "c", "h", "i", "n", "a", ".", "x", "l", "s", "x">>,
     sheet |->
     <<<<<<"I", "m", "p", "o", "r", "t", "a", "c", "i", "o", "n", "e", "s", " ", "d", "e", "s", "d", "e", " ", "C", "h", "i", "n", "a">>,
         NaN,
         NaN,
         NaN,
         NaN,
         NaN,
         NaN,
         NaN,
         NaN,
         NaN>>,
       <<NaN, NaN, NaN, NaN, NaN, NaN, NaN, NaN, NaN, NaN>>,
       <<<<"P", "e", "r", "'i", "o", "d", "o">>,
         <<"C", "'o", "d", "i", "g", "o", " ", "G", "r", "u", "p", "o">>,
         <<"G", "r", "u", "p", "o">>,
         <<"C", "'o", "d", "i", "g", "o", " ", "S", "u", "b", "g", "r", "u", "p", "o">>,
         <<"S", "u", "b", "g", "r", "u", "p", "o">>,
         <<"C", "'o", "d", "i", "g", "o", " ", "S", "u", "b", "p", "a", "r", "t", "i", "d", "a">>,
         <<"S", "u", "b", "p", "a", "r", "t", "i", "d", "a">>,
         <<"T", "M", " ", "(", "P", "e", "s", "o", " ", "N", "e", "t", "o", ")">>,
         <<"F", "O", "B">>,
         <<"C", "I", "F">>>>,
       <<<<"2", "0", "2", "1", " ", "/", " ", "0", "2", " ", "-", " ", "F", "e", "b", "r", "e", "r", "o">>,
         <<"0", "1">>,
         <<"B", "I", "E", "N", "E", "S", " ", "D", "E", " ", "C", "O", "N", "S", "U", "M", "O">>,
         <<"0", "1", "1">>,
         <<"N", "O", " ", "D", "U", "R", "A", "D", "E", "R", "O">>,
         <<"8", "4", "7", "1", ".", "3", "0", ".", "0", "0", ".", "0", "0">>,
         <<"O", "T", "R", "A", "S", " ", "M", "'A", "Q", "U", "I", "N", "A", "S", " ", "(", "P", "O", "R", "T", "'A", "T", "I", "L", "E", "S", ")">>,
         <<"2">>,
         <<"3", "0", "0">>,
         <<"3", "5", "0">>>>,
       <<<<"2", "0", "2", "0", " ", "/", " ", "1", "2", " ", "-", " ", "D", "i", "c", "i", "e", "m", "b", "r", "e">>,
         <<"0", "2">>,
         <<"M", "A", "T", "E", "R", "I", "A", "S", " ", "P", "R", "I", "M", "A", "S">>,
         <<"0", "2", "1">>,
         <<"A", "G", "R", "I", "C", "O", "L", "A", "S">>,
         <<"3", "0", "0", "4", ".", "9", "0", ".", "2", "9", ".", "0", "0">>,
         <<"M", "E", "D", "I", "C", "A", "M", "E", "N", "T", "O", "S">>,
         <<"1">>,
         <<"1", "0", "0">>,
         <<"1", "2", "0">>>>,
       <<<<"T", "o", "t", "a", "l">>,
         NaN,
         NaN,
         NaN,
         NaN,
         NaN,
         NaN,
         <<"3">>,
         <<"4", "0", "0">>,
         <<"4", "7", "0">>>>>>]

\* 2021-import-subpartidas.xlsx: the end-to-end scenario: header at row 7, one data row, weight column labelled TM
FileImport2021 ==
    [name |-> <<"2", "0", "2", "1", "-", "i", "m", "p", "o", "r", "t", "-", "s", "u", "b", "p", "a", "r", "t", "i", "d", "a", "s", ".", "x", "l", "s", "x">>,
     sheet |->
     <<<<<<"I", "m", "p", "o", "r", "t", "a", "c", "i", "o", "n", "e", "s">>,
         NaN,
         NaN,
         NaN,
         NaN,
         NaN>>,
       <<NaN, NaN, NaN, NaN, NaN, NaN>>,
       <<NaN, NaN, NaN, NaN, NaN, NaN>>,
       <<NaN, NaN, NaN, NaN, NaN, NaN>>,
       <<NaN, NaN, NaN, NaN, NaN, NaN>>,
       <<NaN, NaN, NaN, NaN, NaN, NaN>>,
       <<NaN, NaN, NaN, NaN, NaN, NaN>>,
       <<<<"P", "e", "r", "'i", "o", "d", "o">>,
         <<"C", "'o", "d", "i", "g", "o", " ", "S", "u", "b", "p", "a", "r", "t", "i", "d", "a">>,
         <<"S", "u", "b", "p", "a", "r", "t", "i", "d", "a">>,
         <<"F", "O", "B">>,
         <<"C", "I", "F">>,
         <<"T", "M">>>>,
       <<<<"2", "0", "2", "1", " ", "/", " ", "0", "1", " ", "-", " ", "E", "n", "e", "r", "o">>,
         <<"0", "3", "0", "2", ".", "1", "1">>,
         <<"L", "O", "S", " ", "D", "E", "M", "'A", "S", " ", "S", "A", "L", "M", "O", "N", "E", "S", " ", "(", "F", "R", "E", "S", "C", "O", "S", ")">>,
         <<"1", "0", "0", "0">>,
         <<"1", "2", "0", "0">>,
         <<"5">>>>>>]

\* 2022-import-anual.xlsx: yearly periods: a bare year and a text with no year
FileAnual2022 ==
    [name |-> <<"2", "0", "2", "2", "-", "i", "m", "p", "o", "r", "t", "-", "a", "n", "u", "a", "l", ".", "x", "l", "s", "x">>,
     sheet |->
     <<<<<<"A", "n", "u", "a", "l">>,
         NaN,
         NaN,
         NaN,
         NaN,
         NaN>>,
       <<<<"P", "e", "r", "'i", "o", "d", "o">>,
         <<"C", "'o", "d", "i", "g", "o", " ", "S", "u", "b", "p", "a", "r", "t", "i", "d", "a">>,
         <<"S", "u", "b", "p", "a", "r", "t", "i", "d", "a">>,
         <<"T", "M", " ", "(", "P", "e", "s", "o", " ", "N", "e", "t", "o", ")">>,
         <<"F", "O", "B">>,
         <<"C", "I", "F">>>>,
       <<<<"2", "0", "2", "2">>,
         <<"7", "2", "0", "8", ".", "1", "0", ".", "0", "0", ".", "0", "0">>,
         <<"L", "A", "S", " ", "D", "E", "M", "'A", "S", " ", "B", "O", "B", "I", "N", "A", "S">>,
         <<"7">>,
         <<"6", "0">>,
         <<"8", "0">>>>,
       <<<<"s", "i", "n", " ", "f", "e", "c", "h", "a">>,
         <<"7", "2", "0", "8", ".", "1", "0", ".", "0", "0", ".", "0", "0">>,
         <<"L", "A", "S", " ", "D", "E", "M", "'A", "S", " ", "B", "O", "B", "I", "N", "A", "S">>,
         <<"1">>,
         <<"1", "0">>,
         <<"2", "0">>>>>>]

\* ~$2021-import-subpartidas.xlsx: an editor lock file, never a workbook
FileLock ==
    [name |-> <<"~", "$", "2", "0", "2", "1", "-", "i", "m", "p", "o", "r", "t", "-", "s", "u", "b", "p", "a", "r", "t", "i", "d", "a", "s", ".", "x", "l", "s", "x">>,
     sheet |->
     <<>>]

\* the files a source folder may hold
Catalog == <<FileExport2020, FileBad2021, FileExportMin2021, FileImportChina2021, FileImport2021, FileAnual2022, FileLock>>


\* files a source folder holds at most
MaxFiles == 3

\* the source folders: sets of catalog files
Folders == {F \in SUBSET (1..Len(Catalog)) : Cardinality(F) <= MaxFiles}

DotXlsx == <<".", "x", "l", "s", "x">>
LockPrefix == <<"~", "$">>

\* glob.glob(os.path.join(path, "*.xlsx")): "*" matches no leading dot
GlobXlsx(name) == EndsWith(name, DotXlsx) /\ ~StartsWith(name, <<".">>)

\* is_export_file: re.search(r"\bexport\b", basename.lower())
is_export_file(name) ==
    LET b == LowerStr(name)
        n == Len(ExportToken)
    IN  \E i \in 1..(Len(b) - n + 1) :
            /\ SubSeq(b, i, i + n - 1) = ExportToken
            /\ (i = 1 \/ ~IsWordChar(b[i - 1]))
            /\ (i + n > Len(b) \/ ~IsWordChar(b[i + n]))

\* the files list of run_process
IsCandidate(app, name) ==
    /\ GlobXlsx(name)
    /\ ~StartsWith(name, LockPrefix)
    /\ (app = "appexport" => is_export_file(name))

\* sorted(files): the catalog indices of the candidates, by name
RECURSIVE SortFiles(_)
SortFiles(F) ==
    IF F = {} THEN <<>>
    ELSE LET m == CHOOSE x \in F : \A y \in F : StrLeq(Catalog[x].name, Catalog[y].name)
         IN  <<m>> \o SortFiles(F \ {m})

\* files = [...] and sorted(files), for each program and source folder
Discovered ==
    {<<a, F, SortFiles({f \in F : IsCandidate(a, Catalog[f].name)})>> :
        a \in Apps, F \in Folders}

Candidates(app, folder) ==
    (CHOOSE t \in Discovered : t[1] = app /\ t[2] = folder)[3]

(***************************************************************************)
(* The output tree public/data/<flow>/.                                    *)
(***************************************************************************)
Flows == {"imports", "exports", "importscuode"}

NoYears == [y \in {} |-> <<>>]

EmptyDir == [exists |-> FALSE, years |-> NoYears, hasSummary |-> FALSE, summary |-> <<>>]

\* before the first run nothing of public/data exists
EmptyDisk ==
    [data |-> FALSE, imports |-> EmptyDir, exports |-> EmptyDir, importscuode |-> EmptyDir]

\* os.makedirs(API_OUTPUT_PATH, exist_ok=True)
MakeOutputPath(app, d) ==
    CASE app = "app" -> [d EXCEPT !.data = TRUE]
      [] app = "appexport" -> [d EXCEPT !.data = TRUE, !.exports.exists = TRUE]
      [] app = "appcuode" -> [d EXCEPT !.data = TRUE, !.importscuode.exists = TRUE]

\* os.makedirs(out_dir, exist_ok=True)
MakeOutDir(d, flow) == [d EXCEPT ![flow].exists = TRUE]

\* sub[cols].to_json(<flow>/<yr>.json): the whole file is replaced
WriteYear(d, flow, yr, recs) ==
    [d EXCEPT ![flow].years =
        [y \in (DOMAIN d[flow].years) \cup {yr} |->
            IF y = yr THEN recs ELSE d[flow].years[y]]]

\* json.dump(entries, <flow>/summary.json)
WriteSummary(d, flow, entries) ==
    [d EXCEPT ![flow].hasSummary = TRUE, ![flow].summary = entries]

RECURSIVE SumOf(_, _)
SumOf(recs, field) ==
    IF recs = <<>> THEN 0 ELSE Head(recs)[field] + SumOf(Tail(recs), field)

DotJson == <<".", "j", "s", "o", "n">>

\* a total that is the FOB sum in every flow
TotalFieldFob(flow) == "fob"

\* total = sub["cif"].sum() if tipo == "imports" else sub["fob"].sum()
TotalField(flow) == IF flow = "imports" THEN "cif" ELSE "fob"

\* the entry app.py and appexport.py append to resumen
Entry(flow, yr, recs) ==
    [year |-> yr, total |-> SumOf(recs, TotalField(flow)), file |-> yr \o DotJson]

\* a fold that appends without dropping the year's earlier entry
FoldAppend(resumen, entry) == resumen \o <<entry>>

\* resumen = [x for x in resumen if x["year"] != yr]; resumen.append(entry)
Fold(resumen, entry) ==
    SelectSeq(resumen, LAMBDA x : x.year # entry.year) \o <<entry>>

\* a summary left in the order the years were folded in
SortDescSkipped(resumen) == resumen

\* resumen.sort(key=lambda x: x["year"], reverse=True)
SortDesc(resumen) ==
    LET ys == Reverse(SortStrings({resumen[i].year : i \in 1..Len(resumen)}))
    IN  [i \in 1..Len(ys) |->
            resumen[CHOOSE k \in 1..Len(resumen) :
                        /\ resumen[k].year = ys[i]
                        /\ \A j \in 1..(k - 1) : resumen[j].year # ys[i]]]

(***************************************************************************)
(* run_process.                                                            *)
(***************************************************************************)
\* the loop body's effect and the flow written to, for each program and
\* catalog file
Processed ==
    {<<a, f, ProcessFile(a, Catalog[f]), FlowOf(a, Catalog[f].name)>> :
        a \in Apps, f \in 1..Len(Catalog)}

ProcessedFile(app, f) == (CHOOSE t \in Processed : t[1] = app /\ t[2] = f)[3]

Routed(app, f) == (CHOOSE t \in Processed : t[1] = app /\ t[2] = f)[4]

\* the state run_process carries through its loop: the output tree, resumen
\* (app.py: per tipo; appexport.py: the exports list), years_written
\* (appcuode.py), the processed counter and what was reported per file
StartLoop(app, d) ==
    [disk |-> MakeOutputPath(app, d),
     resumen |-> [imports |-> <<>>, exports |-> <<>>],
     years_written |-> {},
     processed |-> 0,
     outcomes |-> <<>>]

\* one pass of "for yr in years": <yr>.json is written, then the year is
\* folded into resumen (app.py, appexport.py) or added to years_written
\* (appcuode.py)
WriteOneYear(app, st, flow, yr, recs) ==
    IF app = "appcuode"
    THEN [st EXCEPT !.disk = WriteYear(@, flow, yr, recs),
                    !.years_written = @ \cup {yr}]
    ELSE [st EXCEPT !.disk = WriteYear(@, flow, yr, recs),
                    !.resumen[flow] = Fold(@, Entry(flow, yr, recs))]

RECURSIVE WriteYears(_, _, _, _)
WriteYears(app, st, flow, writes) ==
    IF writes = <<>> THEN st
    ELSE WriteYears(app, WriteOneYear(app, st, flow, Head(writes)[1], Head(writes)[2]),
                    flow, Tail(writes))

\* os.makedirs(out_dir, exist_ok=True) where the loop body reached it
MakeDirs(st, flow, mkdir) ==
    IF mkdir THEN [st EXCEPT !.disk = MakeOutDir(@, flow)] ELSE st

\* the loop body's effect on the loop state, t being the Processed entry of
\* the file
ApplyFile(app, st, t) ==
    [WriteYears(app, MakeDirs(st, t[4], t[3].mkdir), t[4], t[3].writes)
        EXCEPT !.processed = IF t[3].outcome = "ok" THEN @ + 1 ELSE @,
               !.outcomes = Append(@, t[3].outcome)]

\* one pass of "for filepath in sorted(files)", try/except included
LoopBody(app, st, f) ==
    ApplyFile(app, st, CHOOSE t \in Processed : t[1] = app /\ t[2] = f)

\* a loop that gives up at the first file that fails
RECURSIVE LoopAbort(_, _, _)
LoopAbort(app, st, files) ==
    IF files = <<>> THEN st
    ELSE IF LoopBody(app, st, Head(files)).processed = st.processed
         THEN LoopBody(app, st, Head(files))
         ELSE LoopAbort(app, LoopBody(app, st, Head(files)), Tail(files))

RECURSIVE Loop(_, _, _)
Loop(app, st, files) ==
    IF files = <<>> THEN st ELSE Loop(app, LoopBody(app, st, Head(files)), Tail(files))

\* appcuode.py: the summary is rebuilt from the <year>.json files on disk
CuodeSummary(d, years_written) ==
    LET ys == Reverse(SortStrings(years_written))
    IN  [i \in 1..Len(ys) |->
            [year |-> ys[i],
             total_cif |-> SumOf(d.importscuode.years[ys[i]], "cif"),
             file |-> ys[i] \o DotJson]]

\* the flows whose summary.json the end of run_process writes
SummaryFlows(app, st) ==
    CASE app = "app" -> {t \in {"imports", "exports"} : st.resumen[t] # <<>>}
      [] app = "appexport" -> {t \in {"exports"} : st.resumen[t] # <<>>}
      [] app = "appcuode" -> {t \in {"importscuode"} : st.years_written # {}}

SummaryOf(app, st, flow) ==
    IF app = "appcuode" THEN CuodeSummary(st.disk, st.years_written)
    ELSE SortDesc(st.resumen[flow])

RECURSIVE WriteSummaries(_, _, _)
WriteSummaries(app, st, flows) ==
    IF flows = {} THEN st.disk
    ELSE LET t == CHOOSE x \in flows : TRUE
         IN  WriteSummary(WriteSummaries(app, st, flows \ {t}), t, SummaryOf(app, st, t))

\* the end of run_process: the summaries are written and processed > 0 is
\* returned
Finish(app, files, st, flows) ==
    [disk |-> WriteSummaries(app, st, flows),
     ok |-> st.processed > 0,
     files |-> files,
     outcomes |-> st.outcomes,
     processed |-> st.processed,
     summaries |-> flows]

AfterLoop(app, files, st) == Finish(app, files, st, SummaryFlows(app, st))

\* a run_process that creates the output directory before it looks at the
\* list of candidates
WithFilesMakedirsFirst(app, files, d) ==
    IF files = <<>>
    THEN [disk |-> MakeOutputPath(app, d), ok |-> FALSE, files |-> files,
          outcomes |-> <<>>, processed |-> 0, summaries |-> {}]
    ELSE AfterLoop(app, files, Loop(app, StartLoop(app, d), files))

\* run_process once the candidate files are listed
WithFiles(app, files, d) ==
    IF files = <<>>
    THEN [disk |-> d, ok |-> FALSE, files |-> files, outcomes |-> <<>>,
          processed |-> 0, summaries |-> {}]
    ELSE AfterLoop(app, files, Loop(app, StartLoop(app, d), files))

\* run_process on a source folder, from output tree d: the tree it leaves,
\* the value it returns and what it reported
run_process(app, folder, d) == WithFiles(app, Candidates(app, folder), d)

(***************************************************************************)
(* The pipeline as a state machine: the analyst runs one of the three      *)
(* programs on a source folder, again and again.                           *)
(*   disk  the output tree          prev  the tree before the last run     *)
(*   last  the last run: program, folder, whether it repeats the run       *)
(*         before it, and what run_process returned                        *)
(*   runs  the number of runs so far                                       *)
(* arg, ret, ret2 and pc belong to the specifications of the pure helpers. *)
(***************************************************************************)
\* runs of run_process in one behaviour
MaxRuns == 2

NoRun ==
    [app |-> "none", folder |-> {}, again |-> FALSE, ok |-> FALSE, files |-> <<>>,
     outcomes |-> <<>>, processed |-> 0, summaries |-> {}]

HelpersIdle == arg = <<>> /\ ret = <<>> /\ ret2 = <<>> /\ pc = "idle"

PipelineIdle == disk = EmptyDisk /\ prev = EmptyDisk /\ last = NoRun /\ runs = 0

Init == PipelineIdle /\ HelpersIdle

Run(app, folder) ==
    \E r \in {run_process(app, folder, disk)} :
        /\ runs < MaxRuns
        /\ disk' = r.disk
        /\ prev' = disk
        /\ last' = [app |-> app, folder |-> folder,
                    again |-> last.app = app /\ last.folder = folder,
                    ok |-> r.ok, files |-> r.files, outcomes |-> r.outcomes,
                    processed |-> r.processed, summaries |-> r.summaries]
        /\ runs' = runs + 1
        /\ UNCHANGED <<arg, ret, ret2, pc>>

\* app.py: ETLEngine.run_process
RunApp == \E folder \in Folders : Run("app", folder)

\* appexport.py: ExportETL.run_process
RunAppExport == \E folder \in Folders : Run("appexport", folder)

\* appcuode.py: ETLCuode.run_process
RunAppCuode == \E folder \in Folders : Run("appcuode", folder)

Next == RunApp \/ RunAppExport \/ RunAppCuode

Spec == Init /\ [][Next]_vars

(***************************************************************************)
(* The period parsers on their own: a period text is drawn, then one of    *)
(* the three programs parses it.                                           *)
(*   arg  the text        ret  [app, value]: who parsed and the result     *)
(***************************************************************************)
PeriodYears == {<<"2", "0", "2", "0">>, <<"1", "9", "9", "9">>}

PeriodSeparators == {<<"/">>, <<" ", "/", " ">>, <<"-">>}

PeriodMonths == {<<"0", "3">>, <<"3">>, <<"1", "2">>, <<"1">>, <<"1", "3">>, <<"0", "0">>}

\* what precedes the year: nothing, or another year standing alone
PeriodPrefixes == {<<>>, <<"2", "0", "1", "9", " ">>}

PeriodSuffixes == {<<>>, <<" ", "-", " ", "M", "a", "r", "c", "h">>}

TextMarch == <<"2", "0", "2", "0", " ", "/", " ", "0", "3", " ", "-", " ", "M", "a", "r", "c", "h">>
TextYear == <<"2", "0", "2", "0">>
TextNotADate == <<"n", "o", "t", " ", "a", " ", "d", "a", "t", "e">>
TextYearThenYearMonth == <<"2", "0", "1", "9", " ", "2", "0", "2", "0", "/", "0", "3">>

PeriodTexts ==
    {pre \o y \o sep \o m \o suf :
        pre \in PeriodPrefixes, y \in PeriodYears, sep \in PeriodSeparators,
        m \in PeriodMonths, suf \in PeriodSuffixes}
    \cup PeriodYears
    \cup {TextMarch, TextYear, TextNotADate, TextYearThenYearMonth, <<>>, NaN}

InitPeriod == PipelineIdle /\ arg \in PeriodTexts /\ ret = <<>> /\ ret2 = <<>> /\ pc = "text"

Parse(app) ==
    /\ pc = "text"
    /\ ret' = [app |-> app, value |-> ParsePeriod(app, arg)]
    /\ pc' = "parsed"
    /\ UNCHANGED <<disk, prev, last, runs, arg, ret2>>

\* app.py: parse_fecha
ParseApp == Parse("app")

\* appexport.py: parse_fecha
ParseAppExport == Parse("appexport")

\* appcuode.py: parse_fecha_any
ParseAppCuode == Parse("appcuode")

NextPeriod == ParseApp \/ ParseAppExport \/ ParseAppCuode

SpecPeriod == InitPeriod /\ [][NextPeriod]_vars

(***************************************************************************)
(* The code normalisers on their own: a code cell is drawn, one of the     *)
(* three programs normalises it, and then normalises its own result.       *)
(*   arg  the cell    ret  [app, value]: the first result    ret2  the     *)
(*   result of normalising ret.value again                                 *)
(***************************************************************************)
CodeChars == {"0", "1", ".", " ", "A"}

\* the longest code cell built from CodeChars
MaxCodeLen == 4

RECURSIVE StringsUpTo(_, _)
StringsUpTo(chars, n) ==
    IF n = 0 THEN {<<>>}
    ELSE StringsUpTo(chars, n - 1)
         \cup {<<c>> \o t : c \in chars, t \in {u \in StringsUpTo(chars, n - 1) : Len(u) = n - 1}}

CodeFloat == <<"1", "2", ".", "3", "4", ".", "0">>
CodeTen == <<"1", "2", "3", "4", "5", "6", "7", "8", "9", "0">>
CodeEleven == <<"1", "2", "3", "4", "5", "6", "7", "8", "9", "0", "1">>
CodeLetters == <<"A", "B", ".", "1", "2">>
CodeSigned == <<"-", "1">>

CodeCells ==
    StringsUpTo(CodeChars, MaxCodeLen)
    \cup {CodeFloat, CodeTen, CodeEleven, CodeLetters, CodeSigned, NaN}

InitCode == PipelineIdle /\ arg \in CodeCells /\ ret = <<>> /\ ret2 = <<>> /\ pc = "cell"

Normalize(app) ==
    /\ pc = "cell"
    /\ ret' = [app |-> app, value |-> NormalizeCode(app, arg)]
    /\ pc' = "once"
    /\ UNCHANGED <<disk, prev, last, runs, arg, ret2>>

\* app.py: the cod column
NormalizeApp == Normalize("app")

\* appexport.py: the cod column
NormalizeAppExport == Normalize("appexport")

\* appcuode.py: the cod column
NormalizeAppCuode == Normalize("appcuode")

\* the same program normalises its own result
NormalizeAgain ==
    /\ pc = "once"
    /\ ret2' = NormalizeCode(ret.app, ret.value)
    /\ pc' = "twice"
    /\ UNCHANGED <<disk, prev, last, runs, arg, ret>>

NextCode == NormalizeApp \/ NormalizeAppExport \/ NormalizeAppCuode \/ NormalizeAgain

SpecCode == InitCode /\ [][NextCode]_vars

(***************************************************************************)
(* find_header_row on its own: a sheet of n junk rows, a header row and a  *)
(* data row is drawn, then one of the three programs looks for the header. *)
(*   arg  [n, junk, header]: the sheet's shape   ret  [app, value]         *)
(***************************************************************************)
\* rows of junk beyond the largest max_rows
ExtraRows == 2

\* junk rows hold at most one of the two anchors
JunkRows ==
    << <<<<"R", "e", "p", "o", "r", "t", "e">>, NaN>>,
       <<<<"P", "E", "R", "I", "O", "D", "O">>, <<"x">>>>,
       <<NaN, <<"C", "'o", "d", "i", "g", "o", " ", "S", "u", "b", "p", "a", "r", "t", "i", "d", "a">>>> >>

\* header rows: column order, casing, accents and spacing vary
HeaderRows ==
    << <<<<"P", "e", "r", "'i", "o", "d", "o">>, <<"C", "'o", "d", "i", "g", "o", " ", "S", "u", "b", "p", "a", "r", "t", "i", "d", "a">>, <<"F", "O", "B">>>>,
       <<<<"C", "O", "D", "I", "G", "O", " ", "S", "U", "B", "P", "A", "R", "T", "I", "D", "A">>, <<"x">>, <<"p", "e", "r", "i", "o", "d", "o">>>>,
       <<<<" ", "c", "'o", "d", "i", "g", "o", " ", " ", "s", "u", "b", "p", "a", "r", "t", "i", "d", "a", " ">>, NaN, <<"P", "E", "R", "'I", "O", "D", "O">>>> >>

DataRow == <<<<"2", "0", "2", "1", "/", "0", "1">>, <<"0", "3", "0", "2", ".", "1", "1">>, <<"1", "0", "0">>>>

\* the junk row at 0-based index i of a sheet whose junk starts with kind k
JunkAt(i, k) == JunkRows[((i + k) % Len(JunkRows)) + 1]

RECURSIVE JunkBlock(_, _, _)
JunkBlock(i, n, k) ==
    IF i >= n THEN <<>> ELSE <<JunkAt(i, k)>> \o JunkBlock(i + 1, n, k)

SheetOf(shape) ==
    JunkBlock(0, shape.n, shape.junk) \o <<HeaderRows[shape.header], DataRow>>

SheetShapes ==
    [n : 0..(max_rows_appcuode + ExtraRows), junk : {0, 1},
     header : 1..Len(HeaderRows)]

InitHeader == PipelineIdle /\ arg \in SheetShapes /\ ret = <<>> /\ ret2 = <<>> /\ pc = "sheet"

Locate(app) ==
    /\ pc = "sheet"
    /\ ret' = [app |-> app, value |-> find_header_row(SheetOf(arg), MaxRowsOf(app))]
    /\ pc' = "located"
    /\ UNCHANGED <<disk, prev, last, runs, arg, ret2>>

\* app.py: find_header_row(filepath)
LocateApp == Locate("app")

\* appexport.py: find_header_row(filepath)
LocateAppExport == Locate("appexport")

\* appcuode.py: find_header_row(filepath)
LocateAppCuode == Locate("appcuode")

NextHeader == LocateApp \/ LocateAppExport \/ LocateAppCuode

SpecHeader == InitHeader /\ [][NextHeader]_vars

(***************************************************************************)
(* Properties of the pipeline (specification Spec).                        *)
(***************************************************************************)
\* the total a summary entry carries ("total", or "total_cif" in appcuode.py)
EntryTotal(e) == IF "total" \in DOMAIN e THEN e.total ELSE e.total_cif

\* the measure a flow's summary totals
SummaryMeasure(flow) == IF flow = "exports" THEN "fob" ELSE "cif"

\* <flow>/<y>.json is the same in trees a and b (absent in both, or equal)
SameYearFile(a, b, flow, y) ==
    /\ y \in DOMAIN a[flow].years <=> y \in DOMAIN b[flow].years
    /\ y \in DOMAIN a[flow].years => a[flow].years[y] = b[flow].years[y]

\* the files of the last run that succeeded and were written to flow
OkFiles(flow) ==
    {i \in 1..Len(last.files) :
        last.outcomes[i] = "ok" /\ Routed(last.app, last.files[i]) = flow}

\* the years file f gives a <year>.json to, under program app
YearsWrittenBy(app, f) ==
    {ProcessedFile(app, f).writes[k][1] : k \in 1..Len(ProcessedFile(app, f).writes)}

C2_FailureIsolated ==
    runs > 0 =>
        /\ Len(last.outcomes) = Len(last.files)
        /\ last.processed =
               Cardinality({i \in 1..Len(last.files) : last.outcomes[i] = "ok"})
        /\ \A flow \in Flows :
               \A y \in (DOMAIN prev[flow].years) \cup (DOMAIN disk[flow].years) :
                   (\A i \in OkFiles(flow) : y \notin YearsWrittenBy(last.app, last.files[i]))
                       => /\ SameYearFile(prev, disk, flow, y)
                          /\ flow \in last.summaries =>
                                 \A k \in 1..Len(disk[flow].summary) :
                                     disk[flow].summary[k].year # y

\* C2 witness: a batch of three files whose second file failed, the first and
\* the third succeeded, run over a tree that already held year files.
C2_SecondOfThreeFailed ==
    /\ runs = 2
    /\ Len(last.files) = 3
    /\ Len(last.outcomes) = 3
    /\ last.outcomes[1] = "ok"
    /\ last.outcomes[2] # "ok"
    /\ last.outcomes[3] = "ok"
    /\ last.processed = 2
    /\ last.ok
    /\ \E flow \in Flows : DOMAIN prev[flow].years # {}

\* C3, as the specification states it: run_process returns True exactly when
\* at least one file succeeded, and every run in which a file succeeded has
\* written the summary.json of that file's flow.
C3_SummaryWheneverSuccess ==
    runs > 0 =>
        /\ last.ok <=> \E i \in 1..Len(last.files) : last.outcomes[i] = "ok"
        /\ \A i \in 1..Len(last.files) :
               last.outcomes[i] = "ok" => Routed(last.app, last.files[i]) \in last.summaries

\* C4: a run that finds no candidate file returns False and leaves the output
\* tree exactly as it was: no directory, no <year>.json, no summary.json.
C4_NoCandidatesNothingWritten ==
    (runs > 0 /\ last.files = <<>>) =>
        /\ ~last.ok
        /\ last.processed = 0
        /\ last.summaries = {}
        /\ disk = prev

\* C4 witness: a folder that holds files, none of them a candidate, run over
\* a tree an earlier run had filled.
C4_AllFilteredOut ==
    /\ runs = 2
    /\ last.folder # {}
    /\ last.files = <<>>
    /\ ~last.ok
    /\ prev # EmptyDisk
    /\ disk = prev

\* the catalog's 2021-import-subpartidas.xlsx
EndToEnd == CHOOSE f \in 1..Len(Catalog) : Catalog[f] = FileImport2021

Year2021 == <<"2", "0", "2", "1">>

\* C5, as the specification states it: app.py, run on 2021-import-subpartidas.xlsx
\* alone, leaves imports/2021.json with the one record of the scenario and an
\* imports summary.json with the entry {2021, 1200, 2021.json}.
C5_EndToEnd ==
    (runs > 0 /\ last.app = "app" /\ last.folder = {EndToEnd}) =>
        /\ Year2021 \in DOMAIN disk.imports.years
        /\ disk.imports.years[Year2021] =
               <<[fecha |-> <<"2", "0", "2", "1", "-", "0", "1", "-", "0", "1">>,
                  cod |-> <<"0", "3", "0", "2", "1", "1", "0", "0", "0", "0">>,
                  label |-> <<"S", "a", "l", "m", "o", "n", "e", "s">>,
                  sector |-> "Pesca",
                  fob |-> 1000, cif |-> 1200, peso |-> 5]>>
        /\ disk.imports.hasSummary
        /\ disk.imports.summary =
               <<[year |-> Year2021, total |-> 1200, file |-> <<"2", "0", "2", "1", ".", "j", "s", "o", "n">>]>>

\* the header of file f supplies the period and the code column to program app
SuppliesMandatory(app, f) ==
    ProcessedFile(app, f).outcome \notin {"no_header", "missing_cols"}

\* the columns program app picks from the header of file f
HeaderCols(app, f) ==
    FieldCols(app, Columns(Catalog[f].sheet,
                           find_header_row(Catalog[f].sheet, MaxRowsOf(app))))

\* a record carries the default of every optional field the header lacks
TakesDefaults(fc, rec) ==
    /\ fc.desc = 0 => rec.label = Desconocido
    /\ fc.fob = 0 => rec.fob = 0
    /\ fc.cif = 0 => rec.cif = 0
    /\ fc.peso = 0 => rec.peso = 0
    /\ \A g \in {"grupo_cod", "grupo", "subgrupo_cod", "subgrupo"} :
           (g \in DOMAIN rec /\ fc[g] = 0) => rec[g] = <<>>

\* C10, as the specification states it: in every flow a file whose header
\* supplies the period and the code column is processed and counted whatever
\* optional columns it lacks, and its records carry the defaults of those.
C10_OptionalFieldsDefault ==
    runs > 0 =>
        \A i \in 1..Len(last.files) :
            SuppliesMandatory(last.app, last.files[i]) =>
                /\ last.outcomes[i] = "ok"
                /\ \A k \in 1..Len(ProcessedFile(last.app, last.files[i]).writes) :
                       \A n \in 1..Len(ProcessedFile(last.app, last.files[i]).writes[k][2]) :
                           TakesDefaults(HeaderCols(last.app, last.files[i]),
                                         ProcessedFile(last.app, last.files[i]).writes[k][2][n])

(***************************************************************************)
(* Properties of the period parsers (specification SpecPeriod).            *)
(***************************************************************************)
\* C6, as the specification states it: in every program "2020 / 03 - March"
\* parses to 2020-03-01, "2020" to 2020-01-01, "not a date" to None, and a
\* text with a bare year and a year/month pattern to the year/month's date.
C6_PeriodParsing ==
    pc = "parsed" =>
        /\ arg = TextMarch => ret.value = <<"2", "0", "2", "0", "-", "0", "3", "-", "0", "1">>
        /\ arg = TextYear => ret.value = <<"2", "0", "2", "0", "-", "0", "1", "-", "0", "1">>
        /\ arg = TextNotADate => ret.value = NoneVal
        /\ arg = TextYearThenYearMonth => ret.value = <<"2", "0", "2", "0", "-", "0", "3", "-", "0", "1">>

(***************************************************************************)
(* Properties of the code normalisers (specification SpecCode).            *)
(***************************************************************************)
\* C7, as the specification states it: in every program the normalised code
\* is the cell without its trailing ".0", without dots and trimmed, padded
\* on the left with "0" to 10 characters when that is all digits and shorter
\* than 10, and unchanged otherwise; "12.34.0" gives "0000001234".
C7_CodeNormalization ==
    pc = "once" =>
        LET t == Strip(Str(arg))
            u == IF EndsWith(t, <<".", "0">>) THEN SubSeq(t, 1, Len(t) - 2) ELSE t
            c == Strip(Remove(u, <<".">>))
        IN  /\ ret.value = IF isdigit(c) /\ Len(c) < CodeWidth THEN zfill(c, CodeWidth) ELSE c
            /\ arg = CodeFloat => ret.value = <<"0", "0", "0", "0", "0", "0", "1", "2", "3", "4">>

\* C8: in every program, normalising a normalised code changes nothing.
C8_NormalizeIdempotent == pc = "twice" => ret2 = ret.value

\* C8 witness: appcuode.py has normalised "12.34.0" to "0000001234", a value
\* other than the cell, and then normalised that again.
C8_NormalizedTwice ==
    /\ pc = "twice"
    /\ arg = CodeFloat
    /\ ret.app = "appcuode"
    /\ ret.value = <<"0", "0", "0", "0", "0", "0", "1", "2", "3", "4">>
    /\ ret2 = ret.value

(***************************************************************************)
(* Properties of find_header_row (specification SpecHeader).               *)
(***************************************************************************)
\* C9, amended: with n junk rows before the header row, find_header_row
\* returns n when n < max_rows and None when n >= max_rows.
C9_HeaderWithinPreview ==
    pc = "located" =>
        ret.value = IF arg.n < MaxRowsOf(ret.app) THEN arg.n ELSE NoIndex

\* C9 witness: the header row sits exactly max_rows rows down and
\* find_header_row has returned None.
C9_HeaderAtBound ==
    /\ pc = "located"
    /\ arg.n = MaxRowsOf(ret.app)
    /\ ret.value = NoIndex

\* C9, as the specification states it: find_header_row returns n for n up to
\* max_rows, and None for n beyond max_rows.
C9_HeaderUpToBound ==
    pc = "located" =>
        ret.value = IF arg.n <= MaxRowsOf(ret.app) THEN arg.n ELSE NoIndex

(***************************************************************************)
(* get_sector on its own: a code is drawn, then app.py or appexport.py     *)
(* classifies it (appcuode.py has no sectors).                             *)
(*   arg  the code        ret  [app, value]: who classified and the bucket *)
(***************************************************************************)
\* the longest code built from digits
MaxSectorCodeLen == 3

SectorCodes ==
    StringsUpTo({Digits[i] : i \in 1..Len(Digits)}, MaxSectorCodeLen)
    \cup {CodeTen, CodeLetters, CodeSigned, <<"A">>, <<" ", "0", "3">>, NaN, NoneVal}

InitSector == PipelineIdle /\ arg \in SectorCodes /\ ret = <<>> /\ ret2 = <<>> /\ pc = "code"

Classify(app) ==
    /\ pc = "code"
    /\ ret' = [app |-> app, value |-> get_sector(arg)]
    /\ pc' = "classified"
    /\ UNCHANGED <<disk, prev, last, runs, arg, ret2>>

\* app.py: ETLEngine.get_sector
ClassifyApp == Classify("app")

\* appexport.py: ExportETL.get_sector
ClassifyAppExport == Classify("appexport")

NextSector == ClassifyApp \/ ClassifyAppExport

SpecSector == InitSector /\ [][NextSector]_vars

(***************************************************************************)
(* Properties of get_sector (specification SpecSector).                    *)
(***************************************************************************)
\* C11: get_sector always answers with a bucket: the bucket of the table for
\* a code whose first two characters are a key of the table, whatever
\* follows them, and "Otros" for every other code, a code shorter than two
\* characters and the empty code included.
C11_SectorTotal ==
    pc = "classified" =>
        /\ ret.value \in {e[2] : e \in sectors} \cup {"Otros"}
        /\ \A e \in sectors : StartsWith(Str(arg), e[1]) => ret.value = e[2]
        /\ (\A e \in sectors : ~StartsWith(Str(arg), e[1])) => ret.value = "Otros"
        /\ Len(Str(arg)) < 2 => ret.value = "Otros"

\* C11 witness: a code longer than its prefix "03" has been put in the bucket
\* of "03".
C11_KnownPrefix ==
    /\ pc = "classified"
    /\ arg = <<"0", "3", "0">>
    /\ ret.value = "Pesca"

(***************************************************************************)
(* More properties of the pipeline (specification Spec).                   *)
(***************************************************************************)
\* the records file f holds for year y, under program app
FileYearRecords(app, f, y) ==
    IF y \in YearsWrittenBy(app, f)
    THEN (CHOOSE w \in {ProcessedFile(app, f).writes[k] :
                          k \in 1..Len(ProcessedFile(app, f).writes)} : w[1] = y)[2]
    ELSE <<>>

\* the records of year y in the files of the last run that succeeded and
\* belong to flow, file after file
RECURSIVE RunYearRecords(_, _, _)
RunYearRecords(i, flow, y) ==
    IF i > Len(last.files) THEN <<>>
    ELSE (IF i \in OkFiles(flow) THEN FileYearRecords(last.app, last.files[i], y) ELSE <<>>)
         \o RunYearRecords(i + 1, flow, y)

\* C12, as the specification states it: at the end of a run, for every flow
\* and every year the run wrote, <year>.json holds all the records of that
\* year of every file of the flow that succeeded in the run, and only those.
C12_YearFileComplete ==
    runs > 0 =>
        \A flow \in Flows :
            \A y \in UNION {YearsWrittenBy(last.app, last.files[i]) : i \in OkFiles(flow)} :
                /\ y \in DOMAIN disk[flow].years
                /\ Len(disk[flow].years[y]) = Len(RunYearRecords(1, flow, y))
                /\ \A k \in 1..Len(RunYearRecords(1, flow, y)) :
                       \E n \in 1..Len(disk[flow].years[y]) :
                           disk[flow].years[y][n] = RunYearRecords(1, flow, y)[k]

\* C13, as the specification states it: after any sequence of runs every
\* <year>.json of a flow's output directory has its entry in the flow's
\* summary.json: the years an earlier run wrote keep their entries when a
\* later run rewrites the summary.
C13_SummaryKeepsEarlierYears ==
    \A flow \in Flows :
        disk[flow].hasSummary =>
            \A y \in DOMAIN disk[flow].years :
                \E k \in 1..Len(disk[flow].summary) : disk[flow].summary[k].year = y

ErrorEjecutando == "Error ejecutando comando"
NadaQueSubir == "nada que subir"
CambiosSubidos == "Cambios subidos"

\* what subprocess.run hands back for a command that started
Completions == [returncode : {0, 1}, stdout : {"", "out"}, stderr : {"", "fatal"}]

\* run(cmd): stdout, or RuntimeError(stderr or stdout or "Error ejecutando comando")
run(res) ==
    IF res.returncode # 0
    THEN [raised |-> TRUE,
          value |-> IF res.stderr # "" THEN res.stderr
                    ELSE IF res.stdout # "" THEN res.stdout ELSE ErrorEjecutando]
    ELSE [raised |-> FALSE, value |-> res.stdout]

\* str(e) of the OSError subprocess.run raises when git cannot be started
NoSuchFile == "No such file or directory: 'git'"

InitGit ==
    /\ PipelineIdle
    /\ arg \in [app : Apps, staged : BOOLEAN]
    /\ ret = <<>>
    /\ ret2 = <<>>
    /\ pc = "status"

\* except Exception as e: return False, str(e)
Failed(cmd, msg) ==
    /\ ret2' = Append(ret2, [cmd |-> cmd, ok |-> FALSE])
    /\ ret' = [ok |-> FALSE, msg |-> msg]
    /\ pc' = "done"

\* a command issued through run(): on success the function goes on to next
\* (or returns the success message after the push)
Issue(cmd, next) ==
    /\ pc = cmd
    /\ \/ \E res \in Completions :
              IF run(res).raised
              THEN Failed(cmd, run(res).value)
              ELSE /\ ret2' = Append(ret2, [cmd |-> cmd, ok |-> TRUE])
                   /\ pc' = next
                   /\ ret' = IF next = "done"
                             THEN [ok |-> TRUE, msg |-> CambiosSubidos] ELSE ret
       \/ Failed(cmd, NoSuchFile)
    /\ UNCHANGED <<disk, prev, last, runs, arg>>

\* run(["git", "status"])
GitStatus == Issue("status", "add")

\* run(["git", "add", "public/data"])
GitAdd == Issue("add", "diff")

\* subprocess.run(["git", "diff", "--cached", "--name-only"]): the return
\* code is not looked at, only stdout.  A diff that succeeds lists a name
\* exactly when something is staged; a diff that exits non-zero writes its
\* complaint to stderr and nothing to stdout.
GitDiff ==
    /\ pc = "diff"
    /\ \/ \E res \in {c \in Completions :
                        c.stdout # "" <=> (c.returncode = 0 /\ arg.staged)} :
              /\ ret2' = Append(ret2, [cmd |-> "diff", ok |-> res.returncode = 0])
              /\ IF res.stdout = ""
                 THEN ret' = [ok |-> TRUE, msg |-> NadaQueSubir] /\ pc' = "done"
                 ELSE ret' = ret /\ pc' = "commit"
       \/ Failed("diff", NoSuchFile)
    /\ UNCHANGED <<disk, prev, last, runs, arg>>

\* run(["git", "commit", "-m", msg])
GitCommit == Issue("commit", "push")

\* run(["git", "push", "origin", DEFAULT_BRANCH])
GitPush == Issue("push", "done")

NextGit == GitStatus \/ GitAdd \/ GitDiff \/ GitCommit \/ GitPush

SpecGit == InitGit /\ [][NextGit]_vars

(***************************************************************************)
(* Properties of git_push_changes (specification SpecGit).                 *)
(***************************************************************************)
GitOrder == <<"status", "add", "diff", "commit", "push">>

\* C15, as the specification states it: the commands are issued in the order
\* status, add, diff, commit, push; no commit and no push is issued when
\* nothing is staged, and the function then returns success with the
\* nothing-to-upload message; the push follows a commit that succeeded; a
\* command that fails is the last one issued and the function returns False
\* with the error text.
C15_PublishProtocol ==
    /\ Len(ret2) <= Len(GitOrder)
    /\ \A k \in 1..Len(ret2) : ret2[k].cmd = GitOrder[k]
    /\ \A k \in 1..Len(ret2) : ret2[k].cmd \in {"commit", "push"} => arg.staged
    /\ \A k \in 2..Len(ret2) : ret2[k - 1].ok
    /\ pc = "done" =>
           /\ ~ret2[Len(ret2)].ok => (~ret.ok /\ ret.msg \notin {NadaQueSubir, CambiosSubidos})
           /\ (ret2[Len(ret2)].ok /\ ~arg.staged) => ret = [ok |-> TRUE, msg |-> NadaQueSubir]
           /\ (ret2[Len(ret2)].ok /\ arg.staged) =>
                  (Len(ret2) = Len(GitOrder) /\ ret = [ok |-> TRUE, msg |-> CambiosSubidos])

(***************************************************************************)
(* More properties of the period parsers (specification SpecPeriod).       *)
(***************************************************************************)
\* d reads YYYY-MM-01 with MM between 01 and 12
IsFirstOfMonth(d) ==
    /\ Len(d) = 10
    /\ \A k \in {1, 2, 3, 4, 6, 7} : IsDigit(d[k])
    /\ d[5] = "-"
    /\ SubSeq(d, 8, 10) = DateSuffix
    /\ NatOf(SubSeq(d, 6, 7)) \in 1..12

\* C16, as the specification states it: in every program the date a period
\* text is given, when it is given one (a row without a date is dropped), is
\* a real calendar date of the form YYYY-MM-01, MM between 01 and 12.
C16_DateIsFirstOfMonth ==
    (pc = "parsed" /\ ret.value # NoneVal) => IsFirstOfMonth(ret.value)

NameHeads ==
    {<<"2", "0", "2", "0", "-">>,
     <<"2", "0", "2", "0", "_">>,
     <<"2", "0", "2", "0", " ">>,
     <<>>}

NameTokens ==
    {<<"e", "x", "p", "o", "r", "t">>,
     <<"E", "x", "p", "o", "r", "t">>,
     <<"E", "X", "P", "O", "R", "T">>,
     <<"e", "x", "p", "o", "r", "t", "s">>,
     <<"e", "x", "p", "o", "r", "t", "a", "c", "i", "o", "n">>,
     <<"i", "m", "p", "o", "r", "t">>}

NameTails ==
    {<<"-", "c", "h", "i", "n", "a", ".", "x", "l", "s", "x">>,
     <<"_", "c", "h", "i", "n", "a", ".", "x", "l", "s", "x">>,
     <<".", "x", "l", "s", "x">>,
     <<"2", ".", "x", "l", "s", "x">>}

FileNames == {h \o t \o e : h \in NameHeads, t \in NameTokens, e \in NameTails}

InitRoute == PipelineIdle /\ arg \in FileNames /\ ret = <<>> /\ ret2 = <<>> /\ pc = "name"

\* app.py: tipo = "exports" if "export" in filename.lower() else "imports"
RouteApp ==
    /\ pc = "name"
    /\ ret' = [app |-> "app", value |-> Tipo(arg) = "exports"]
    /\ pc' = "routed"
    /\ UNCHANGED <<disk, prev, last, runs, arg, ret2>>

\* appexport.py: the file is kept when is_export_file(f)
RouteAppExport ==
    /\ pc = "name"
    /\ ret' = [app |-> "appexport", value |-> is_export_file(arg)]
    /\ pc' = "routed"
    /\ UNCHANGED <<disk, prev, last, runs, arg, ret2>>

NextRoute == RouteApp \/ RouteAppExport

SpecRoute == InitRoute /\ [][NextRoute]_vars

(***************************************************************************)
(* Properties of the routing (specification SpecRoute).                    *)
(***************************************************************************)
\* C18, as the specification states it: app.py and appexport.py both take a
\* file as an export file exactly when its lower-cased name contains the
\* token "export", so they take the same files.
C18_RoutingAgrees ==
    pc = "routed" => (ret.value <=> Contains(LowerStr(arg), ExportToken))

(***************************************************************************)
(* Header and schema on their own: a sheet is drawn (an optional title     *)
(* row, a row of labels and a data row), then one of the three programs    *)
(* runs its loop body on it: find_header_row, then the schema mapping.     *)
(*   arg  [lead, row]: whether a title row comes first, and the labels     *)
(*   ret  [app, idx, outcome]: the index find_header_row answered and      *)
(*        what the loop body did with the file                             *)
(***************************************************************************)
\* the cells a row of labels is made of: spellings of the two mandatory
\* labels, other labels and an empty cell
HeaderCells ==
    {<<"P", "e", "r", "'i", "o", "d", "o">>,
     <<" ", "P", "E", "R", "I", "O", "D", "O", " ">>,
     <<"p", "e", "r", "i", "o", "d", "o", ":">>,
     <<"C", "'o", "d", "i", "g", "o", " ", "S", "u", "b", "p", "a", "r", "t", "i", "d", "a">>,
     <<"c", "o", "d", "i", "g", "o", " ", " ", "s", "u", "b", "p", "a", "r", "t", "i", "d", "a">>,
     <<"S", "u", "b", "p", "a", "r", "t", "i", "d", "a">>,
     NaN,
     <<"F", "O", "B">>}

TitleRow == <<<<"R", "e", "p", "o", "r", "t", "e">>, NaN, NaN>>

SchemaSheet(shape) ==
    (IF shape.lead THEN <<TitleRow>> ELSE <<>>) \o <<shape.row, DataRow>>

SchemaFile(shape) ==
    [name |-> <<"2", "0", "2", "1", "-", "i", "m", "p", "o", "r", "t", ".", "x", "l", "s", "x">>, sheet |-> SchemaSheet(shape)]

\* a row of labels is as wide as the data row
SchemaShapes == [lead : BOOLEAN, row : HeaderCells \X HeaderCells \X HeaderCells]

InitSchema == PipelineIdle /\ arg \in SchemaShapes /\ ret = <<>> /\ ret2 = <<>> /\ pc = "file"

MapSchema(app) ==
    /\ pc = "file"
    /\ ret' = [app |-> app,
               idx |-> find_header_row(SchemaSheet(arg), MaxRowsOf(app)),
               outcome |-> ProcessFile(app, SchemaFile(arg)).outcome]
    /\ pc' = "mapped"
    /\ UNCHANGED <<disk, prev, last, runs, arg, ret2>>

\* app.py: the loop body up to the mandatory-column check and beyond
MapSchemaApp == MapSchema("app")

\* appexport.py: the same
MapSchemaAppExport == MapSchema("appexport")

\* appcuode.py: the same
MapSchemaAppCuode == MapSchema("appcuode")

NextSchema == MapSchemaApp \/ MapSchemaAppExport \/ MapSchemaAppCuode

SpecSchema == InitSchema /\ [][NextSchema]_vars

(***************************************************************************)
(* Properties of header and schema (specification SpecSchema).             *)
(***************************************************************************)
\* the schema mapping of a program, applied to row idx (0-based) of a sheet
\* taken as the header, resolves both mandatory fields
ResolvesMandatory(app, sheet, idx) ==
    /\ FieldCols(app, Columns(sheet, idx)).fecha_txt # 0
    /\ FieldCols(app, Columns(sheet, idx)).cod # 0

\* C19: whenever find_header_row locates a header row, the schema mapping
\* applied to that row resolves both mandatory fields, so the "missing
\* required columns" skip is never taken; and a file none of whose rows the
\* mapping resolves both mandatory fields from is reported as "header not
\* detected".
C19_LocatedHeaderResolves ==
    pc = "mapped" =>
        /\ ret.idx # NoIndex => ResolvesMandatory(ret.app, SchemaSheet(arg), ret.idx)
        /\ ret.outcome # "missing_cols"
        /\ (\A i \in 0..(Len(SchemaSheet(arg)) - 1) :
                ~ResolvesMandatory(ret.app, SchemaSheet(arg), i))
           => ret.outcome = "no_header"

\* a header under a title row, its labels padded, upper-cased, accented and
\* double-spaced, is located and passes the mandatory-column check
C19_VariantLabelsLocated ==
    /\ pc = "mapped"
    /\ arg.lead
    /\ arg.row = <<<<"c", "o", "d", "i", "g", "o", " ", " ", "s", "u", "b", "p", "a", "r", "t", "i", "d", "a">>, <<" ", "P", "E", "R", "I", "O", "D", "O", " ">>, NaN>>
    /\ ret.idx = 1
    /\ ret.outcome \notin {"no_header", "missing_cols"}

====
